---------------------------- MODULE Spec2Model ----------------------------
(***************************************************************************)
(* Model of the Aliyun master provisioner                                  *)
(* (incubator/virtualcluster/pkg/controller/virtualcluster/                *)
(*  master_provisioner_aliyun.go).                                         *)
(*                                                                         *)
(* Strings are sequences of one-character strings, so that strings.Split,  *)
(* byte slicing and the JSON decoding of a response body are computed the  *)
(* way the code computes them.                                             *)
(***************************************************************************)
EXTENDS Integers, Sequences, FiniteSets, TLC

(***************************************************************************)
(* String literals of the source and of the backend protocol.              *)
(***************************************************************************)
\* "ErrorCheckAcl"
OprationNotSupported ==
    <<"E", "r", "r", "o", "r", "C", "h", "e", "c", "k", "A", "c", "l">>

\* "ErrorClusterNotFound"
ClusterNotFound ==
    <<"E", "r", "r", "o", "r", "C", "l", "u", "s", "t", "e", "r", "N", "o", "t",
      "F", "o", "u", "n", "d">>

\* "ClusterNameAlreadyExist"
ClusterNameAlreadyExist ==
    <<"C", "l", "u", "s", "t", "e", "r", "N", "a", "m", "e", "A", "l", "r", "e",
      "a", "d", "y", "E", "x", "i", "s", "t">>

\* a backend error code the provisioner has no special case for
ErrorQuotaExceeded ==
    <<"E", "r", "r", "o", "r", "Q", "u", "o", "t", "a", "E", "x", "c", "e", "e",
      "d", "e", "d">>

K_name == <<"n", "a", "m", "e">>

K_cluster_id == <<"c", "l", "u", "s", "t", "e", "r", "_", "i", "d">>

K_state == <<"s", "t", "a", "t", "e">>

K_config == <<"c", "o", "n", "f", "i", "g">>

S_running == <<"r", "u", "n", "n", "i", "n", "g">>

S_creating == <<"c", "r", "e", "a", "t", "i", "n", "g">>

S_deleting == <<"d", "e", "l", "e", "t", "i", "n", "g">>

S_ServerError ==
    <<"S", "D", "K", ".", "S", "e", "r", "v", "e", "r", "E", "r", "r", "o", "r">>

S_ClientError ==
    <<"S", "D", "K", ".", "C", "l", "i", "e", "n", "t", "E", "r", "r", "o", "r">>

\* "cluster name X already exist"
S_already ==
    <<"c", "l", "u", "s", "t", "e", "r", " ", "n", "a", "m", "e", " ", "X", " ",
      "a", "l", "r", "e", "a", "d", "y", " ", "e", "x", "i", "s", "t">>

\* "not found: c1"  (a message that itself holds a colon)
S_notfound ==
    <<"n", "o", "t", " ", "f", "o", "u", "n", "d", ":", " ", "c", "1">>

Digits == {"0", "1", "2", "3", "4", "5", "6", "7", "8", "9"}

(***************************************************************************)
(* strings.Index / strings.Split of the Go standard library.               *)
(***************************************************************************)
HasPrefixAt(s, sep, i) ==
    /\ i + Len(sep) - 1 <= Len(s)
    /\ \A k \in 1..Len(sep) : s[i + k - 1] = sep[k]

\* first position >= i at which sep occurs in s, 0 when there is none
Index(s, sep, i) ==
    LET at == {j \in i..Len(s) : HasPrefixAt(s, sep, j)}
    IN  IF at = {} THEN 0 ELSE CHOOSE j \in at : \A k \in at : j <= k

\* Op applied to the value of v, v being evaluated once
With(v, Op(_)) == CHOOSE r \in {Op(x) : x \in {v}} : TRUE

RECURSIVE Split(_, _)
\* strings.Split(s, sep) for a non-empty sep
Split(s, sep) ==
    LET Rest(t) == Split(t, sep)
        Cut(i) == IF i = 0 THEN <<s>>
                  ELSE <<SubSeq(s, 1, i - 1)>>
                       \o With(SubSeq(s, i + Len(sep), Len(s)), Rest)
    IN  With(Index(s, sep, 1), Cut)

(***************************************************************************)
(* encoding/json, for the JSON this backend sends: objects and arrays,     *)
(* strings without escapes, unsigned integers, true, false and null, no    *)
(* white space.  A value is [t, v]; an object's v is the sequence of its   *)
(* <<key, value>> members, an array's v the sequence of its elements.      *)
(***************************************************************************)
JBad == [ok |-> FALSE, val |-> [t |-> "bad", v |-> <<>>], next |-> 0]

JGood(t, v, next) == [ok |-> TRUE, val |-> [t |-> t, v |-> v], next |-> next]

\* first position >= i that holds no digit
ScanDigits(s, i) ==
    LET at == {j \in i..Len(s) : s[j] \notin Digits}
    IN  IF at = {} THEN Len(s) + 1 ELSE CHOOSE j \in at : \A k \in at : j <= k

RECURSIVE ParseValue(_, _)
RECURSIVE ParseMembers(_, _, _)
RECURSIVE ParseElements(_, _, _)
\* the JSON value that starts at position i of s
ParseValue(s, i) ==
    IF i > Len(s) THEN JBad
    ELSE IF s[i] = "\"" THEN
        LET Closed(j) == IF j = 0 THEN JBad
                         ELSE JGood("str", SubSeq(s, i + 1, j - 1), j + 1)
        IN  With(Index(s, <<"\"">>, i + 1), Closed)
    ELSE IF s[i] \in Digits THEN
        LET Number(j) == JGood("num", SubSeq(s, i, j - 1), j)
        IN  With(ScanDigits(s, i), Number)
    ELSE IF HasPrefixAt(s, <<"t", "r", "u", "e">>, i) THEN JGood("lit", <<>>, i + 4)
    ELSE IF HasPrefixAt(s, <<"f", "a", "l", "s", "e">>, i) THEN JGood("lit", <<>>, i + 5)
    ELSE IF HasPrefixAt(s, <<"n", "u", "l", "l">>, i) THEN JGood("lit", <<>>, i + 4)
    ELSE IF s[i] = "{" THEN
        IF HasPrefixAt(s, <<"}">>, i + 1) THEN JGood("obj", <<>>, i + 2)
        ELSE ParseMembers(s, i + 1, <<>>)
    ELSE IF s[i] = "[" THEN
        IF HasPrefixAt(s, <<"]">>, i + 1) THEN JGood("arr", <<>>, i + 2)
        ELSE ParseElements(s, i + 1, <<>>)
    ELSE JBad

\* the members of an object from position i on, acc holding those read so far
ParseMembers(s, i, acc) ==
    LET AfterValue(kx) ==
            LET k == kx[1]
                x == kx[2]
            IN  IF ~x.ok THEN JBad
                ELSE IF HasPrefixAt(s, <<",">>, x.next)
                     THEN ParseMembers(s, x.next + 1, Append(acc, <<k.val.v, x.val>>))
                ELSE IF HasPrefixAt(s, <<"}">>, x.next)
                     THEN JGood("obj", Append(acc, <<k.val.v, x.val>>), x.next + 1)
                ELSE JBad
        AfterKey(k) ==
            IF ~k.ok \/ k.val.t # "str" \/ ~HasPrefixAt(s, <<":">>, k.next) THEN JBad
            ELSE With(<<k, ParseValue(s, k.next + 1)>>, AfterValue)
    IN  With(ParseValue(s, i), AfterKey)

\* the elements of an array from position i on
ParseElements(s, i, acc) ==
    LET AfterValue(x) ==
            IF ~x.ok THEN JBad
            ELSE IF HasPrefixAt(s, <<",">>, x.next)
                 THEN ParseElements(s, x.next + 1, Append(acc, x.val))
            ELSE IF HasPrefixAt(s, <<"]">>, x.next)
                 THEN JGood("arr", Append(acc, x.val), x.next + 1)
            ELSE JBad
    IN  With(ParseValue(s, i), AfterValue)

\* json.Unmarshal of a whole body: the value, or ok = FALSE
Unmarshal(s) ==
    LET Whole(x) == IF x.ok /\ x.next = Len(s) + 1 THEN x ELSE JBad
    IN  With(ParseValue(s, 1), Whole)

\* map lookup after decoding an object: the last member of that key wins
HasKey(members, key) == \E k \in 1..Len(members) : members[k][1] = key

GetKey(members, key) ==
    LET ks == {k \in 1..Len(members) : members[k][1] = key}
        last == CHOOSE k \in ks : \A m \in ks : m <= k
    IN  members[last][2]

\* strutil.IsJSON: the body is well-formed JSON
IsJSON(s) == Unmarshal(s).ok

(***************************************************************************)
(* isErrResponse.  The result is nil, an AliyunSDKErr, or the run-time     *)
(* panic of an index or slice expression out of range.                     *)
(***************************************************************************)
NilErr == [kind |-> "nil", errorName |-> <<>>, errorCode |-> <<>>, errorMessage |-> <<>>]

PanicErr == [kind |-> "panic", errorName |-> <<>>, errorCode |-> <<>>, errorMessage |-> <<>>]

\* a plausible slip: the message taken from the line after the fifth
MessageLineMut == 5 + 1

\* errEntries[4] of the source: the fifth line, position 5 here
MessageLine == 5

isErrResponse(responseBody) ==
    IF IsJSON(responseBody) THEN NilErr
    ELSE
        LET Fields(parts) ==
                \* parts[1]: strings.Split(errEntries[0], ": ")
                \* parts[2]: strings.Split(errEntries[4], ":")
                LET errorCode == parts[2][3]
                    errorMessage == parts[2][5]
                IN  IF \/ Len(parts[1]) < 2
                       \/ Len(parts[2]) < 5
                       \/ Len(errorCode) < 2
                       \/ Len(errorMessage) < 2
                    THEN PanicErr
                    ELSE [kind |-> "sdk",
                          errorName |-> parts[1][2],
                          errorCode |-> SubSeq(errorCode, 2, Len(errorCode) - 1),
                          errorMessage |-> SubSeq(errorMessage, 2, Len(errorMessage) - 1)]
            Entries(errEntries) ==
                IF Len(errEntries) < MessageLine THEN PanicErr
                ELSE With(<<Split(errEntries[1], <<":", " ">>),
                            Split(errEntries[MessageLine], <<":">>)>>, Fields)
        IN  With(Split(responseBody, <<"\n">>), Entries)

(***************************************************************************)
(* Bounds of the model.                                                    *)
(***************************************************************************)
\* number of CreateVirtualCluster / DeleteVirtualCluster calls that can be in flight
NumCalls == 2

\* total number of invocations in one behaviour
MaxInvocations == 3

\* number of cluster ids the backend can hand out
MaxClusters == 2

\* seconds a slow state probe takes to answer (a fast one takes none)
SlowProbe == 120

\* the clock of a poll loop stops counting here
MaxClock == 130

(***************************************************************************)
(* Program constants (seconds).                                            *)
(***************************************************************************)
\* a plausible slip: a deadline earlier than the 120 seconds
CreationTimeoutMut == 120 - 20

\* a plausible slip: a deadline later than the 120 seconds
CreationTimeoutLate == 120 + 20

\* 120 * time.Second of CreateVirtualCluster
CreationTimeout == 120

CreationInterval == 10

DeletionTimeout == 100

DeletionInterval == 2

DefaultVcManagerNs == "vc-manager"

Calls == 1..NumCalls

\* the tenants (Virtualcluster names) of the model
TenantNames == {<<"t", "a">>}

\* a cluster of another owner that the backend lists before the tenants' clusters
OtherName == <<"o", "t", "h", "e", "r">>

OtherID == <<"c", "0">>

DigitChar(i) == <<"0", "1", "2", "3", "4", "5", "6", "7", "8", "9">>[i + 1]

\* the backend's opaque id of its i-th cluster, and that cluster's kubeconfig
ClusterID(i) == <<"c", DigitChar(i)>>

KubeConfigOf(i) == <<"k", DigitChar(i)>>

VARIABLES
    clusters,     \* backend: i -> [present, name, state] for every id it can hand out
    nextID,       \* backend: the next id to hand out
    namespaces,   \* super master: the anchor namespaces that exist
    secrets,      \* super master: namespace -> kubeconfig held by its admin secret (<<>>: none)
    call,         \* c -> the state of call slot c
    invocations,  \* number of calls invoked so far
    body,         \* classifier check: the response body under classification
    sdkErr,       \* classifier check: what isErrResponse returned for it
    classified,   \* classifier check: whether isErrResponse has run
    loadEnv,      \* loader check: the stores and the pod namespace the loaders see
    loadOut,      \* loader check: what getAliyunAKPair and getASKConfigs returned
    listing,      \* lookup check: the entries of the answer to GET /clusters
    lookupOut     \* lookup check: what getClusterIDByName returned

vars == <<clusters, nextID, namespaces, secrets, call, invocations, body, sdkErr, classified,
          loadEnv, loadOut, listing, lookupOut>>

(***************************************************************************)
(* Response bodies of the backend (section "External interfaces").         *)
(***************************************************************************)
Q == <<"\"">>

JField(key, val) == Q \o key \o Q \o <<":">> \o Q \o val \o Q

\* the five-line text of an error response
ErrBody(errorName, code, message, requestId, status) ==
    <<"E", "R", "R", "O", "R", ":", " ">> \o errorName
    \o <<"\n", "E", "r", "r", "o", "r", "C", "o", "d", "e", ":">>
    \o <<"\n", "R", "e", "c", "o", "m", "m", "e", "n", "d", ":">>
    \o <<"\n", "R", "e", "q", "u", "e", "s", "t", "I", "d", ":">>
    \o <<"\n", "M", "e", "s", "s", "a", "g", "e", ":", " ", "{">>
    \o JField(<<"c", "o", "d", "e">>, code) \o <<",">>
    \o JField(<<"m", "e", "s", "s", "a", "g", "e">>, message) \o <<",">>
    \o JField(<<"r", "e", "q", "u", "e", "s", "t", "I", "d">>, requestId) \o <<",">>
    \o Q \o <<"s", "t", "a", "t", "u", "s">> \o Q \o <<":">> \o status \o <<"}">>

SDKErrBody(code) == ErrBody(S_ServerError, code, S_already, <<"R", "1">>, <<"4", "0", "0">>)

ConflictBody == SDKErrBody(ClusterNameAlreadyExist)

NotFoundBody == SDKErrBody(ClusterNotFound)

NotSupportedBody == SDKErrBody(OprationNotSupported)

QuotaBody == SDKErrBody(ErrorQuotaExceeded)

\* POST /clusters accepted
CreatedBody(i) ==
    <<"{">> \o JField(K_cluster_id, ClusterID(i)) \o <<",">>
    \o JField(<<"t", "a", "s", "k", "_", "i", "d">>, <<"T", "1">>) \o <<"}">>

\* POST /clusters answered without the id
NoIDBody == <<"{">> \o JField(<<"t", "a", "s", "k", "_", "i", "d">>, <<"T", "1">>) \o <<"}">>

ClusterEntry(name, id, state) ==
    <<"{">> \o JField(K_name, name) \o <<",">> \o JField(K_cluster_id, id) \o <<",">>
    \o JField(K_state, state) \o <<"}">>

\* the states the backend reports
States == {S_creating, S_running, S_deleting}

IDs == 1..MaxClusters

NoCluster == [present |-> FALSE, name |-> <<>>, state |-> <<>>]

\* every value the backend's cluster table can take
ClusterSpace ==
    [IDs -> {NoCluster} \cup [present : {TRUE}, name : TenantNames, state : States]]

\* GET /clusters/{id}
StateBody(cl, i) == ClusterEntry(cl[i].name, ClusterID(i), cl[i].state)

\* GET /clusters/{id} answered without the state
NoStateBody(cl, i) ==
    <<"{">> \o JField(K_name, cl[i].name) \o <<",">>
    \o JField(K_cluster_id, ClusterID(i)) \o <<"}">>

RECURSIVE ListEntries(_, _)
ListEntries(cl, i) ==
    IF i > MaxClusters THEN <<>>
    ELSE (IF cl[i].present
          THEN <<",">> \o ClusterEntry(cl[i].name, ClusterID(i), cl[i].state)
          ELSE <<>>) \o ListEntries(cl, i + 1)

\* GET /clusters
ListBody(cl) ==
    <<"[">> \o ClusterEntry(OtherName, OtherID, S_running) \o ListEntries(cl, 1) \o <<"]">>

\* GET /k8s/{id}/user_config
KubeBody(i) == <<"{">> \o JField(K_config, KubeConfigOf(i)) \o <<"}">>

NoConfigBody == <<"{", "}">>

\* what cli.ProcessCommonRequest returns: a transport error, or a response body
Transport == [err |-> TRUE, body |-> <<>>]

Response(b) == [err |-> FALSE, body |-> b]


(***************************************************************************)
(* Go error values: nil, or an error of some kind; an *AliyunSDKErr        *)
(* carries its errorCode.                                                  *)
(***************************************************************************)
NoError == [kind |-> "nil", code |-> <<>>]

Error(kind) == [kind |-> kind, code |-> <<>>]

SDKError(e) == [kind |-> "sdk", code |-> e.errorCode]

\* json.Unmarshal into map[string]string: an object whose values are all strings
IsStringMap(x) ==
    /\ x.ok
    /\ x.val.t = "obj"
    /\ \A k \in 1..Len(x.val.v) : x.val.v[k][2].t = "str"

\* json.Unmarshal into []map[string]interface{}: an array of objects
IsObjectList(x) ==
    /\ x.ok
    /\ x.val.t = "arr"
    /\ \A k \in 1..Len(x.val.v) : x.val.v[k].t = "obj"

\* a plausible slip: no entry of the name is not an error
CantFindMut == [err |-> [kind |-> "nil", code |-> <<>>], id |-> <<>>]

\* "can't find cluster information for cluster(%s)" of getClusterIDByName
CantFind == [err |-> Error("notfound"), id |-> <<>>]

RECURSIVE ScanClusters(_, _, _)
\* the loop of getClusterIDByName over clsInfoLst, from entry k on
ScanClusters(lst, k, clusterName) ==
    IF k > Len(lst) THEN CantFind
    ELSE LET clsInfo == lst[k].v
         IN  IF ~HasKey(clsInfo, K_name) THEN [err |-> Error("shape"), id |-> <<>>]
             ELSE IF GetKey(clsInfo, K_name).t # "str"
                  THEN [err |-> Error("shape"), id |-> <<>>]
             ELSE IF GetKey(clsInfo, K_name).v = clusterName
                  THEN IF ~HasKey(clsInfo, K_cluster_id)
                       THEN [err |-> Error("shape"), id |-> <<>>]
                       ELSE IF GetKey(clsInfo, K_cluster_id).t # "str"
                            THEN [err |-> Error("shape"), id |-> <<>>]
                       ELSE [err |-> NoError, id |-> GetKey(clsInfo, K_cluster_id).v]
             ELSE ScanClusters(lst, k + 1, clusterName)

\* getClusterIDByName, given the answer to GET /clusters
getClusterIDByName(resp, clusterName) ==
    IF resp.err THEN [err |-> Error("transport"), id |-> <<>>]
    ELSE LET Scan(x) == IF ~IsObjectList(x) THEN [err |-> Error("json"), id |-> <<>>]
                        ELSE ScanClusters(x.val.v, 1, clusterName)
         IN  With(Unmarshal(resp.body), Scan)

\* a plausible slip: the task id read in place of the cluster id
CreatedIDKeyMut == <<"t", "a", "s", "k", "_", "i", "d">>

\* clsInfo["cluster_id"] of sendCreationRequest
CreatedIDKey == K_cluster_id

\* sendCreationRequest, given the answer to POST /clusters and the answer the
\* GET /clusters of its name-conflict branch gets; lookup tells whether that
\* GET was issued
sendCreationRequest(post, list, clusterName) ==
    IF post.err THEN [err |-> Error("transport"), id |-> <<>>, lookup |-> FALSE]
    ELSE LET Created(x) ==
                 IF ~IsStringMap(x)
                 THEN [err |-> Error("json"), id |-> <<>>, lookup |-> FALSE]
                 ELSE IF ~HasKey(x.val.v, CreatedIDKey)
                      THEN [err |-> Error("shape"), id |-> <<>>, lookup |-> FALSE]
                 ELSE [err |-> NoError, id |-> GetKey(x.val.v, CreatedIDKey).v,
                       lookup |-> FALSE]
             Found(r) == [err |-> r.err, id |-> r.id, lookup |-> TRUE]
             Classified(e) ==
                 IF e.kind = "panic"
                 THEN [err |-> Error("panic"), id |-> <<>>, lookup |-> FALSE]
                 ELSE IF e.kind = "sdk"
                      THEN IF e.errorCode = ClusterNameAlreadyExist
                           THEN With(getClusterIDByName(list, clusterName), Found)
                           ELSE [err |-> SDKError(e), id |-> <<>>, lookup |-> FALSE]
                 ELSE With(Unmarshal(post.body), Created)
         IN  With(isErrResponse(post.body), Classified)

clusterNotFoundErr(err) ==
    /\ err.kind = "sdk"
    /\ err.code = ClusterNotFound \/ err.code = OprationNotSupported

\* getASKState, given the answer to GET /clusters/{clusterID}.  For an error
\* response it returns the transport error variable, which is nil there.
getASKState(resp, clusterID) ==
    IF resp.err THEN [err |-> Error("transport"), state |-> <<>>]
    ELSE LET Info(x) ==
                 LET clsInfo == x.val.v
                 IN  IF x.val.t # "obj" THEN [err |-> Error("json"), state |-> <<>>]
                     ELSE IF ~HasKey(clsInfo, K_cluster_id)
                          THEN [err |-> Error("shape"), state |-> <<>>]
                     ELSE IF GetKey(clsInfo, K_cluster_id).t # "str"
                          THEN [err |-> Error("shape"), state |-> <<>>]
                     ELSE IF GetKey(clsInfo, K_cluster_id).v # clusterID
                          THEN [err |-> Error("shape"), state |-> <<>>]
                     ELSE IF ~HasKey(clsInfo, K_state)
                          THEN [err |-> Error("shape"), state |-> <<>>]
                     ELSE IF GetKey(clsInfo, K_state).t # "str"
                          THEN [err |-> Error("shape"), state |-> <<>>]
                     ELSE [err |-> NoError, state |-> GetKey(clsInfo, K_state).v]
             Classified(errRep) ==
                 IF errRep.kind = "panic" THEN [err |-> Error("panic"), state |-> <<>>]
                 ELSE IF errRep.kind # "nil" THEN [err |-> NoError, state |-> <<>>]
                 ELSE With(Unmarshal(resp.body), Info)
         IN  With(isErrResponse(resp.body), Classified)

\* a plausible slip: any state the backend reports ends the wait
IsRunningMut(clsState) == clsState # <<>>

\* clsState == "running" of CreateVirtualCluster
IsRunning(clsState) == clsState = S_running

\* a plausible slip: any state the backend reports ends the wait
IsDeletingMut(state) == state # <<>>

\* state == "deleting" of DeleteVirtualCluster
IsDeleting(state) == state = S_deleting

\* a plausible slip: the kubeconfig read from a field the answer does not have
KubeConfigKeyMut == <<"k", "u", "b", "e", "c", "o", "n", "f", "i", "g">>

\* kubeCfg["config"] of getASKKubeConfig
KubeConfigKey == K_config

\* getASKKubeConfig, given the answer to GET /k8s/{clusterID}/user_config
getASKKubeConfig(resp) ==
    IF resp.err THEN [err |-> Error("transport"), kbCfg |-> <<>>]
    ELSE LET Config(x) ==
                 IF ~IsStringMap(x) THEN [err |-> Error("json"), kbCfg |-> <<>>]
                 ELSE IF ~HasKey(x.val.v, KubeConfigKey)
                      THEN [err |-> Error("shape"), kbCfg |-> <<>>]
                 ELSE [err |-> NoError, kbCfg |-> GetKey(x.val.v, KubeConfigKey).v]
         IN  With(Unmarshal(resp.body), Config)

\* sendDeletionRequest: only the transport error counts, the body is not read
sendDeletionRequest(resp) == IF resp.err THEN Error("transport") ELSE NoError

(***************************************************************************)
(* Credential and configuration loading.  store gives, for a namespace,    *)
(* the keys of the access-key secret and of the ASK config map found there *)
(* (read: whether the object could be read at all).                        *)
(***************************************************************************)
\* a plausible slip: no fallback when the pod's namespace is not found
VcManagerNsMut(env) == env.podNs

\* the namespace both loaders read from
VcManagerNs(env) == IF env.nsErr THEN DefaultVcManagerNs ELSE env.podNs

getAliyunAKPair(env) ==
    LET akSrt == env.secret[VcManagerNs(env)]
        data == IF akSrt.read THEN akSrt.keys ELSE {}
    IN  IF "accessKeySecret" \notin data THEN Error("accessKeySecret")
        ELSE IF "accessKeyID" \notin data THEN Error("accessKeyID")
        ELSE IF ~akSrt.read THEN Error("get")
        ELSE NoError

\* a plausible slip: the optional askVpcID checked like the required fields
getASKConfigsMut(env) ==
    LET cfgMp == env.config[VcManagerNs(env)]
        data == IF cfgMp.read THEN cfgMp.keys ELSE {}
    IN  IF "askRegionID" \notin data THEN [err |-> Error("askRegionID"), vpc |-> FALSE]
        ELSE IF "askZoneID" \notin data THEN [err |-> Error("askZoneID"), vpc |-> FALSE]
        ELSE IF "askVpcID" \notin data THEN [err |-> Error("askVpcID"), vpc |-> FALSE]
        ELSE [err |-> NoError, vpc |-> TRUE]

getASKConfigs(env) ==
    LET cfgMp == env.config[VcManagerNs(env)]
        data == IF cfgMp.read THEN cfgMp.keys ELSE {}
    IN  IF "askRegionID" \notin data THEN [err |-> Error("askRegionID"), vpc |-> FALSE]
        ELSE IF "askZoneID" \notin data THEN [err |-> Error("askZoneID"), vpc |-> FALSE]
        ELSE [err |-> IF cfgMp.read THEN NoError ELSE Error("get"),
              vpc |-> "askVpcID" \in data]


(***************************************************************************)
(* The environment of a call: the stores the loaders read.                 *)
(***************************************************************************)
StoreNamespaces == {DefaultVcManagerNs, "pod-ns"}

FullSecret == [read |-> TRUE, keys |-> {"accessKeyID", "accessKeySecret"}]

NoIDSecret == [read |-> TRUE, keys |-> {"accessKeySecret"}]

Unreadable == [read |-> FALSE, keys |-> {}]

FullConfig == [read |-> TRUE, keys |-> {"askRegionID", "askZoneID", "askVpcID"}]

NoVpcConfig == [read |-> TRUE, keys |-> {"askRegionID", "askZoneID"}]

NoZoneConfig == [read |-> TRUE, keys |-> {"askRegionID", "askVpcID"}]

\* nsErr: the pod's namespace cannot be found; clientErr: sdk.NewClientWithAccessKey fails
Env(nsErr, clientErr, so, co) ==
    [nsErr |-> nsErr, podNs |-> "pod-ns", clientErr |-> clientErr,
     secret |-> [n \in StoreNamespaces |-> so],
     config |-> [n \in StoreNamespaces |-> co]]

LoadEnvs ==
    {Env(e, FALSE, FullSecret, FullConfig) : e \in BOOLEAN}
    \cup {Env(FALSE, TRUE, FullSecret, FullConfig),
          Env(FALSE, FALSE, NoIDSecret, FullConfig),
          Env(FALSE, FALSE, Unreadable, FullConfig),
          Env(FALSE, FALSE, FullSecret, NoVpcConfig),
          Env(FALSE, FALSE, FullSecret, NoZoneConfig)}

\* a plausible slip: the error of getASKConfigs dropped
LoadErrorMut(env) ==
    IF getAliyunAKPair(env).kind # "nil" THEN getAliyunAKPair(env)
    ELSE IF env.clientErr THEN Error("client")
    ELSE NoError

\* steps 1 and 2a of both operations: the error they return before any request
LoadError(env) ==
    IF getAliyunAKPair(env).kind # "nil" THEN getAliyunAKPair(env)
    ELSE IF getASKConfigs(env).err.kind # "nil" THEN getASKConfigs(env).err
    ELSE IF env.clientErr THEN Error("client")
    ELSE NoError

(***************************************************************************)
(* The backend.                                                            *)
(***************************************************************************)
ClusterIDs == {ClusterID(i) : i \in IDs}

\* the backend's index of a cluster id, 0 for an id it does not know
IdIndex(id) == IF \E i \in IDs : ClusterID(i) = id
               THEN CHOOSE i \in IDs : ClusterID(i) = id
               ELSE 0

Present(id) == IdIndex(id) # 0 /\ clusters[IdIndex(id)].present

\* the backend's name-uniqueness check
NameTaken(n) == \E i \in IDs : clusters[i].present /\ clusters[i].name = n

\* the id of the cluster that holds name n, <<>> when there is none
HolderOf(n) == IF NameTaken(n)
               THEN ClusterID(CHOOSE i \in IDs : clusters[i].present /\ clusters[i].name = n)
               ELSE <<>>

\* every response each request can get, whatever the backend's state
PostResponses ==
    {Transport, Response(QuotaBody), Response(ConflictBody), Response(NoIDBody)}
    \cup {Response(CreatedBody(i)) : i \in IDs}

ListResponses == {Transport} \cup {Response(ListBody(cl)) : cl \in ClusterSpace}

ProbeResponses ==
    {Transport, Response(NotSupportedBody), Response(NotFoundBody)}
    \cup UNION {{Response(StateBody(cl, i)), Response(NoStateBody(cl, i))} :
                  <<cl, i>> \in {x \in ClusterSpace \X IDs : x[1][x[2]].present}}

KubeResponses ==
    {Transport, Response(NoConfigBody), Response(NotFoundBody)}
    \cup {Response(KubeBody(i)) : i \in IDs}

\* the functions of the provisioner, tabulated over those responses
ListBodyOf == [cl \in ClusterSpace |-> ListBody(cl)]

getClusterIDByNameOf ==
    [resp \in ListResponses, n \in TenantNames |-> getClusterIDByName(resp, n)]

sendCreationRequestOf ==
    [post \in PostResponses, list \in ListResponses, n \in TenantNames |->
        sendCreationRequest(post, list, n)]

getASKStateOf ==
    [resp \in ProbeResponses, id \in ClusterIDs |-> getASKState(resp, id)]

getASKKubeConfigOf == [resp \in KubeResponses |-> getASKKubeConfig(resp)]

\* getASKState for any id, also one the backend never handed out
ASKState(resp, id) ==
    IF id \in ClusterIDs THEN getASKStateOf[resp, id] ELSE getASKState(resp, id)

\* the answers POST /clusters can get for name n; make: the cluster is created
PostOutcomes(n) ==
    {[resp |-> Transport, make |-> FALSE],
     [resp |-> Response(QuotaBody), make |-> FALSE]}
    \cup (IF NameTaken(n)
          THEN {[resp |-> Response(ConflictBody), make |-> FALSE]}
          ELSE IF nextID <= MaxClusters
               THEN {[resp |-> Response(CreatedBody(nextID)), make |-> TRUE],
                     [resp |-> Response(NoIDBody), make |-> FALSE]}
               ELSE {})

\* the answers GET /clusters can get
ListOutcomes == {Transport, Response(ListBodyOf[clusters])}

\* the answers GET /clusters/{id} can get
ProbeOutcomes(id) ==
    {Transport, Response(NotSupportedBody)}
    \cup (IF Present(id)
          THEN {Response(StateBody(clusters, IdIndex(id))),
                Response(NoStateBody(clusters, IdIndex(id)))}
          ELSE {Response(NotFoundBody)})

\* the answers GET /k8s/{id}/user_config can get
KubeOutcomes(id) ==
    {Transport, Response(NoConfigBody)}
    \cup (IF Present(id) THEN {Response(KubeBody(IdIndex(id)))}
          ELSE {Response(NotFoundBody)})

\* the answers DELETE /clusters/{id} can get; accept: the cluster starts deleting
DeleteOutcomes(id) ==
    {[resp |-> Transport, accept |-> FALSE]}
    \cup (IF Present(id)
          THEN {[resp |-> Response(<<>>), accept |-> TRUE],
                [resp |-> Response(NotSupportedBody), accept |-> FALSE]}
          ELSE {[resp |-> Response(NotFoundBody), accept |-> FALSE]})

\* seconds a state probe takes
ProbeDurations == {0, SlowProbe}

(***************************************************************************)
(* Call slots.                                                             *)
(***************************************************************************)
IdleCall ==
    [op |-> "none", name |-> <<>>, pc |-> "idle", err |-> NoError, clsID |-> <<>>,
     clock |-> 0,           \* seconds since polling started (at a timeout: when it returned)
     over |-> FALSE,        \* the poll loop was left after its deadline
     posts |-> 0, lists |-> 0, deletes |-> 0, kubeReqs |-> 0,
     probed |-> FALSE,      \* a state probe was issued
     state |-> <<>>,        \* the state read by the probe that ended the poll loop
     sawRunning |-> FALSE,  \* a probe of this call returned "running"
     conflict |-> FALSE,    \* the POST was answered with the name conflict
     holder |-> <<>>,       \* the id that held the name when the POST was answered
     looked |-> FALSE,      \* the name lookup returned an id
     gone |-> FALSE,        \* the poll loop of Delete was left on clusterNotFoundErr
     kubeGood |-> FALSE,    \* the backend answered the kubeconfig request with a config
     nsTried |-> FALSE, srtTried |-> FALSE, srtMade |-> FALSE,
     slow |-> FALSE,        \* a state probe of this call took SlowProbe seconds
     refused |-> FALSE]     \* the DELETE request was answered with an error response

\* the call returns err
Return(r, err) == [r EXCEPT !.pc = "done", !.err = err]

\* the poll loop is left at time t, the deadline being at time limit
Leave(r, t, limit) == [r EXCEPT !.clock = 0, !.over = t > limit]

Min(a, b) == IF a < b THEN a ELSE b

Max(a, b) == IF a < b THEN b ELSE a

\* conversion.ToClusterKey: the anchor namespace of a tenant
ToClusterKey(name) == name

\* the result of a function that has not run yet
NotRun == [run |-> FALSE]

Init ==
    /\ clusters = [i \in IDs |-> NoCluster]
    /\ nextID = 1
    /\ namespaces = {}
    /\ secrets = [n \in TenantNames |-> <<>>]
    /\ call = [c \in Calls |-> IdleCall]
    /\ invocations = 0
    /\ body = <<>>
    /\ sdkErr = NilErr
    /\ classified = FALSE
    /\ loadEnv = Env(FALSE, FALSE, FullSecret, FullConfig)
    /\ loadOut = NotRun
    /\ listing = <<>>
    /\ lookupOut = NotRun

backendVars == <<clusters, nextID>>

localVars == <<namespaces, secrets>>

classifyVars == <<body, sdkErr, classified>>

loadVars == <<loadEnv, loadOut>>

lookupVars == <<listing, lookupOut>>

\* the variables of the checks of the pure functions
checkVars == <<classifyVars, loadVars, lookupVars>>

\* CreateVirtualCluster / DeleteVirtualCluster is called: credentials, config, client
\* (the slots are interchangeable: a slot is first used after those before it)
Invoke(c, op, n, env) ==
    /\ call[c].pc \in {"idle", "done"}
    /\ \A b \in Calls : b < c => call[b].pc # "idle"
    /\ invocations < MaxInvocations
    /\ invocations' = invocations + 1
    /\ LET r == [IdleCall EXCEPT !.op = op, !.name = n]
           e == LoadError(env)
       IN  call' = [call EXCEPT ![c] =
                       IF e.kind # "nil" THEN Return(r, e)
                       ELSE [r EXCEPT !.pc = IF op = "create" THEN "post" ELSE "lookup"]]
    /\ UNCHANGED <<backendVars, localVars, checkVars>>

\* CreateVirtualCluster, step 2: sendCreationRequest
CreatePost(c) ==
    /\ call[c].pc = "post"
    /\ \E o \in PostOutcomes(call[c].name), l \in ListOutcomes :
        LET r == call[c]
            res == sendCreationRequestOf[o.resp, l, r.name]
            r1 == [r EXCEPT !.posts = @ + 1,
                            !.lists = IF res.lookup THEN @ + 1 ELSE @,
                            !.conflict = (o.resp = Response(ConflictBody)),
                            !.holder = HolderOf(r.name),
                            !.looked = res.lookup /\ res.err.kind = "nil"]
        IN  /\ call' = [call EXCEPT ![c] =
                           IF res.err.kind # "nil" THEN Return(r1, res.err)
                           ELSE [r1 EXCEPT !.pc = "poll", !.clsID = res.id, !.clock = 0]]
            /\ IF o.make
               THEN /\ clusters' = [clusters EXCEPT ![nextID] =
                                       [present |-> TRUE, name |-> r.name, state |-> S_creating]]
                    /\ nextID' = nextID + 1
               ELSE UNCHANGED backendVars
    /\ UNCHANGED <<localVars, invocations, checkVars>>

\* CreateVirtualCluster, step 3, case <-time.After(10 * time.Second)
CreatePoll(c) ==
    /\ call[c].pc = "poll"
    /\ call[c].op = "create"
    /\ call[c].clock + CreationInterval <= CreationTimeout
    /\ \E o \in ProbeOutcomes(call[c].clsID), d \in ProbeDurations :
        LET r == call[c]
            res == ASKState(o, r.clsID)
            t == r.clock + CreationInterval + d
            r1 == [r EXCEPT !.probed = TRUE, !.clock = Min(t, MaxClock),
                            !.slow = @ \/ d > 0]
        IN  call' = [call EXCEPT ![c] =
                        IF res.err.kind # "nil"
                        THEN Return(Leave(r1, t, CreationTimeout), res.err)
                        ELSE IF IsRunning(res.state)
                             THEN [Leave(r1, t, CreationTimeout) EXCEPT
                                      !.pc = "ns", !.state = res.state,
                                      !.sawRunning = (res.state = S_running)]
                        ELSE r1]
    /\ UNCHANGED <<backendVars, localVars, invocations, checkVars>>

\* a plausible slip: the cluster is deleted again when the deadline elapses
CreateTimeoutMut(c) ==
    /\ call[c].pc = "poll"
    /\ call[c].op = "create"
    /\ call[c].clock + CreationInterval >= CreationTimeout
    /\ call' = [call EXCEPT ![c] =
                   Return([@ EXCEPT !.clock = Max(@, CreationTimeout),
                                    !.over = call[c].clock > CreationTimeout,
                                    !.deletes = @ + 1],
                          Error("timeout"))]
    /\ clusters' = [i \in IDs |-> IF ClusterID(i) = call[c].clsID /\ clusters[i].present
                                  THEN [clusters[i] EXCEPT !.state = S_deleting]
                                  ELSE clusters[i]]
    /\ UNCHANGED <<nextID, localVars, invocations, checkVars>>

\* CreateVirtualCluster, step 3, case <-creationTimeout
CreateTimeout(c) ==
    /\ call[c].pc = "poll"
    /\ call[c].op = "create"
    /\ call[c].clock + CreationInterval >= CreationTimeout
    /\ call' = [call EXCEPT ![c] =
                   Return([@ EXCEPT !.clock = Max(@, CreationTimeout),
                                    !.over = call[c].clock > CreationTimeout],
                          Error("timeout"))]
    /\ UNCHANGED <<backendVars, localVars, invocations, checkVars>>

\* a plausible slip: "already exists" returned like any other error
CreateNamespaceMut(c) ==
    /\ call[c].pc = "ns"
    /\ \E failed \in BOOLEAN :
        LET r == [call[c] EXCEPT !.nsTried = TRUE]
            vcNs == ToClusterKey(r.name)
        IN  IF failed \/ vcNs \in namespaces
            THEN /\ call' = [call EXCEPT ![c] = Return(r, Error("exists"))]
                 /\ UNCHANGED namespaces
            ELSE /\ call' = [call EXCEPT ![c] = [r EXCEPT !.pc = "kube"]]
                 /\ namespaces' = namespaces \cup {vcNs}
    /\ UNCHANGED <<backendVars, secrets, invocations, checkVars>>

\* CreateVirtualCluster, step 4: create the root namespace; failed: the create
\* fails with an error other than "already exists"
CreateNamespace(c) ==
    /\ call[c].pc = "ns"
    /\ \E failed \in BOOLEAN :
        LET r == [call[c] EXCEPT !.nsTried = TRUE]
            vcNs == ToClusterKey(r.name)
        IN  IF failed
            THEN /\ call' = [call EXCEPT ![c] = Return(r, Error("k8s"))]
                 /\ UNCHANGED namespaces
            ELSE /\ call' = [call EXCEPT ![c] = [r EXCEPT !.pc = "kube"]]
                 /\ namespaces' = namespaces \cup {vcNs}
    /\ UNCHANGED <<backendVars, secrets, invocations, checkVars>>

\* a plausible slip: the namespace removed again when the kubeconfig cannot be got
CreateSecretRollback(c) ==
    /\ call[c].pc = "kube"
    /\ \E o \in KubeOutcomes(call[c].clsID), failed \in BOOLEAN :
        LET r == [call[c] EXCEPT !.kubeReqs = @ + 1,
                                 !.kubeGood = \E i \in IDs : o = Response(KubeBody(i))]
            res == getASKKubeConfigOf[o]
            vcNs == ToClusterKey(r.name)
            r1 == [r EXCEPT !.srtTried = TRUE]
        IN  IF res.err.kind # "nil"
            THEN /\ call' = [call EXCEPT ![c] = Return(r, res.err)]
                 /\ namespaces' = namespaces \ {vcNs}
                 /\ secrets' = [secrets EXCEPT ![vcNs] = <<>>]
            ELSE IF failed \/ vcNs \notin namespaces
            THEN /\ call' = [call EXCEPT ![c] = Return(r1, Error("k8s"))]
                 /\ UNCHANGED <<namespaces, secrets>>
            ELSE IF secrets[vcNs] # <<>>
            THEN /\ call' = [call EXCEPT ![c] = Return(r1, NoError)]
                 /\ UNCHANGED <<namespaces, secrets>>
            ELSE /\ call' = [call EXCEPT ![c] = Return([r1 EXCEPT !.srtMade = TRUE], NoError)]
                 /\ secrets' = [secrets EXCEPT ![vcNs] = res.kbCfg]
                 /\ UNCHANGED namespaces
    /\ UNCHANGED <<backendVars, invocations, checkVars>>

\* CreateVirtualCluster, steps 5 and 6: get the kubeconfig and store it in the
\* admin secret; failed: the create of the secret fails with an error other
\* than "already exists"
CreateSecret(c) ==
    /\ call[c].pc = "kube"
    /\ \E o \in KubeOutcomes(call[c].clsID), failed \in BOOLEAN :
        LET r == [call[c] EXCEPT !.kubeReqs = @ + 1,
                                 !.kubeGood = \E i \in IDs : o = Response(KubeBody(i))]
            res == getASKKubeConfigOf[o]
            vcNs == ToClusterKey(r.name)
            r1 == [r EXCEPT !.srtTried = TRUE]
        IN  IF res.err.kind # "nil"
            THEN /\ call' = [call EXCEPT ![c] = Return(r, res.err)]
                 /\ UNCHANGED secrets
            ELSE IF failed \/ vcNs \notin namespaces
            THEN /\ call' = [call EXCEPT ![c] = Return(r1, Error("k8s"))]
                 /\ UNCHANGED secrets
            ELSE IF secrets[vcNs] # <<>>
            THEN /\ call' = [call EXCEPT ![c] = Return(r1, NoError)]
                 /\ UNCHANGED secrets
            ELSE /\ call' = [call EXCEPT ![c] = Return([r1 EXCEPT !.srtMade = TRUE], NoError)]
                 /\ secrets' = [secrets EXCEPT ![vcNs] = res.kbCfg]
    /\ UNCHANGED <<backendVars, namespaces, invocations, checkVars>>

\* DeleteVirtualCluster: getClusterIDByName
DeleteLookup(c) ==
    /\ call[c].pc = "lookup"
    /\ \E l \in ListOutcomes :
        LET r == [call[c] EXCEPT !.lists = @ + 1]
            res == getClusterIDByNameOf[l, r.name]
        IN  call' = [call EXCEPT ![c] =
                        IF res.err.kind # "nil" THEN Return(r, res.err)
                        ELSE [r EXCEPT !.pc = "delete", !.clsID = res.id, !.looked = TRUE]]
    /\ UNCHANGED <<backendVars, localVars, invocations, checkVars>>

\* DeleteVirtualCluster: sendDeletionRequest
DeleteSend(c) ==
    /\ call[c].pc = "delete"
    /\ \E o \in DeleteOutcomes(call[c].clsID) :
        LET r == [call[c] EXCEPT !.deletes = @ + 1,
                                 !.refused = o.resp \in {Response(NotSupportedBody),
                                                         Response(NotFoundBody)}]
            err == sendDeletionRequest(o.resp)
        IN  /\ call' = [call EXCEPT ![c] =
                           IF err.kind # "nil" THEN Return(r, err)
                           ELSE [r EXCEPT !.pc = "poll", !.clock = 0]]
            /\ clusters' = IF o.accept
                           THEN [clusters EXCEPT ![IdIndex(r.clsID)].state = S_deleting]
                           ELSE clusters
    /\ UNCHANGED <<nextID, localVars, invocations, checkVars>>

\* DeleteVirtualCluster, case <-time.After(2 * time.Second)
DeletePoll(c) ==
    /\ call[c].pc = "poll"
    /\ call[c].op = "delete"
    /\ call[c].clock + DeletionInterval <= DeletionTimeout
    /\ \E o \in ProbeOutcomes(call[c].clsID), d \in ProbeDurations :
        LET r == call[c]
            res == ASKState(o, r.clsID)
            t == r.clock + DeletionInterval + d
            r1 == [r EXCEPT !.probed = TRUE, !.clock = Min(t, MaxClock),
                            !.slow = @ \/ d > 0]
        IN  call' = [call EXCEPT ![c] =
                        IF res.err.kind # "nil"
                        THEN IF clusterNotFoundErr(res.err)
                             THEN Return([Leave(r1, t, DeletionTimeout) EXCEPT
                                             !.gone = TRUE], NoError)
                             ELSE Return(Leave(r1, t, DeletionTimeout), res.err)
                        ELSE IF IsDeleting(res.state)
                             THEN Return([Leave(r1, t, DeletionTimeout) EXCEPT
                                             !.state = res.state], NoError)
                        ELSE r1]
    /\ UNCHANGED <<backendVars, localVars, invocations, checkVars>>

\* DeleteVirtualCluster, case <-deletionTimeout
DeleteTimeout(c) ==
    /\ call[c].pc = "poll"
    /\ call[c].op = "delete"
    /\ call[c].clock + DeletionInterval >= DeletionTimeout
    /\ call' = [call EXCEPT ![c] =
                   Return([@ EXCEPT !.clock = Max(@, DeletionTimeout),
                                    !.over = call[c].clock > DeletionTimeout],
                          Error("timeout"))]
    /\ UNCHANGED <<backendVars, localVars, invocations, checkVars>>

\* the backend brings a cluster it is creating up
BackendRun(i) ==
    /\ clusters[i].present
    /\ clusters[i].state = S_creating
    /\ clusters' = [clusters EXCEPT ![i].state = S_running]
    /\ UNCHANGED <<nextID, localVars, call, invocations, checkVars>>

\* the backend removes a cluster it is deleting
BackendRemove(i) ==
    /\ clusters[i].present
    /\ clusters[i].state = S_deleting
    /\ clusters' = [clusters EXCEPT ![i] = NoCluster]
    /\ UNCHANGED <<nextID, localVars, call, invocations, checkVars>>

Next ==
    \/ \E c \in Calls, op \in {"create", "delete"}, n \in TenantNames, env \in LoadEnvs :
          Invoke(c, op, n, env)
    \/ \E c \in Calls : CreatePost(c)
    \/ \E c \in Calls : CreatePoll(c)
    \/ \E c \in Calls : CreateTimeout(c)
    \/ \E c \in Calls : CreateNamespace(c)
    \/ \E c \in Calls : CreateSecret(c)
    \/ \E c \in Calls : DeleteLookup(c)
    \/ \E c \in Calls : DeleteSend(c)
    \/ \E c \in Calls : DeletePoll(c)
    \/ \E c \in Calls : DeleteTimeout(c)
    \/ \E i \in IDs : BackendRun(i)
    \/ \E i \in IDs : BackendRemove(i)

Spec == Init /\ [][Next]_vars

\* the next step of call c: the call runs on its caller's goroutine, every
\* request is answered (if only with a transport error) and every timer fires
CallStep(c) ==
    \/ CreatePost(c)
    \/ CreatePoll(c)
    \/ CreateTimeout(c)
    \/ CreateNamespace(c)
    \/ CreateSecret(c)
    \/ DeleteLookup(c)
    \/ DeleteSend(c)
    \/ DeletePoll(c)
    \/ DeleteTimeout(c)

\* the provisioner starts against a backend that may hold the tenant's cluster
\* already, and two calls are made
InitBlocking ==
    /\ \E held \in {NoCluster} \cup [present : {TRUE}, name : TenantNames,
                                      state : {S_creating, S_running}] :
          /\ clusters = [i \in IDs |-> IF i = 1 THEN held ELSE NoCluster]
          /\ nextID = IF held.present THEN 2 ELSE 1
    /\ namespaces = {}
    /\ secrets = [n \in TenantNames |-> <<>>]
    /\ call = [c \in Calls |-> IdleCall]
    /\ invocations = MaxInvocations - 2
    /\ body = <<>>
    /\ sdkErr = NilErr
    /\ classified = FALSE
    /\ loadEnv = Env(FALSE, FALSE, FullSecret, FullConfig)
    /\ loadOut = NotRun
    /\ listing = <<>>
    /\ lookupOut = NotRun

\* every call that has started goes on to its next step
FairSpec == InitBlocking /\ [][Next]_vars /\ \A c \in Calls : WF_vars(CallStep(c))


(***************************************************************************)
(* The classifier on its own: isErrResponse applied to one response body.  *)
(***************************************************************************)
\* the error responses of the five-line shape, each with the code it carries
CanonicalCases ==
    {[body |-> ErrBody(n, c, m, r, st), json |-> FALSE, canonical |-> TRUE, code |-> c] :
        n \in {S_ServerError, S_ClientError},
        c \in {ClusterNameAlreadyExist, ClusterNotFound, OprationNotSupported,
               ErrorQuotaExceeded},
        m \in {S_already, S_notfound, <<>>},
        r \in {<<"R", "1">>, <<>>},
        st \in {<<"4", "0", "0">>, <<"4", "0", "4">>}}

\* the success responses: well-formed JSON by construction
JSONCases ==
    {[body |-> b, json |-> TRUE, canonical |-> FALSE, code |-> <<>>] :
        b \in {NoIDBody, NoConfigBody, <<"[", "]">>}
              \cup {CreatedBody(i) : i \in IDs}
              \cup {KubeBody(i) : i \in IDs}
              \cup {ListBody(cl) : cl \in ClusterSpace}
              \cup {StateBody(cl, i) : cl \in {x \in ClusterSpace : \A k \in IDs : x[k].present},
                                       i \in IDs}}

\* text that is neither: the empty body of DELETE, a cut error text, cut JSON
OtherCases ==
    {[body |-> b, json |-> FALSE, canonical |-> FALSE, code |-> <<>>] :
        b \in {<<>>,
               <<"E", "R", "R", "O", "R", ":", " ", "x">>,
               <<"o", "o", "p", "s">>,
               <<"{", "\"", "a", "\"", ":">>,
               <<"{", "}", "x">>}}

ClassifyCases == CanonicalCases \cup JSONCases \cup OtherCases

\* the case a body was drawn from
CaseOf(b) == CHOOSE k \in ClassifyCases : k.body = b

InitClassify ==
    /\ clusters = [i \in IDs |-> NoCluster]
    /\ nextID = 1
    /\ namespaces = {}
    /\ secrets = [n \in TenantNames |-> <<>>]
    /\ call = [c \in Calls |-> IdleCall]
    /\ invocations = 0
    /\ body \in {k.body : k \in ClassifyCases}
    /\ sdkErr = NilErr
    /\ classified = FALSE
    /\ loadEnv = Env(FALSE, FALSE, FullSecret, FullConfig)
    /\ loadOut = NotRun
    /\ listing = <<>>
    /\ lookupOut = NotRun

Classify ==
    /\ ~classified
    /\ sdkErr' = isErrResponse(body)
    /\ classified' = TRUE
    /\ UNCHANGED <<backendVars, localVars, call, invocations, body, loadVars, lookupVars>>

NextClassify == Classify

SpecClassify == InitClassify /\ [][NextClassify]_vars


(***************************************************************************)
(* The loaders on their own: getAliyunAKPair and getASKConfigs applied to  *)
(* one environment, the two namespaces holding independent objects.        *)
(***************************************************************************)
\* the access-key secret as a namespace can hold it
SecretObjects ==
    {Unreadable} \cup {[read |-> TRUE, keys |-> k] : k \in SUBSET FullSecret.keys}

\* the ASK config map as a namespace can hold it
ConfigObjects ==
    {Unreadable} \cup {[read |-> TRUE, keys |-> k] : k \in SUBSET FullConfig.keys}

AllEnvs ==
    {[nsErr |-> e, podNs |-> "pod-ns", clientErr |-> FALSE, secret |-> so, config |-> co] :
        e \in BOOLEAN,
        so \in [StoreNamespaces -> SecretObjects],
        co \in [StoreNamespaces -> ConfigObjects]}

InitLoad ==
    /\ clusters = [i \in IDs |-> NoCluster]
    /\ nextID = 1
    /\ namespaces = {}
    /\ secrets = [n \in TenantNames |-> <<>>]
    /\ call = [c \in Calls |-> IdleCall]
    /\ invocations = 0
    /\ body = <<>>
    /\ sdkErr = NilErr
    /\ classified = FALSE
    /\ loadEnv \in AllEnvs
    /\ loadOut = NotRun
    /\ listing = <<>>
    /\ lookupOut = NotRun

Load ==
    /\ ~loadOut.run
    /\ loadOut' = [run |-> TRUE,
                   ak |-> getAliyunAKPair(loadEnv),
                   cfg |-> getASKConfigs(loadEnv)]
    /\ UNCHANGED <<backendVars, localVars, call, invocations, classifyVars, loadEnv,
                   lookupVars>>

NextLoad == Load

SpecLoad == InitLoad /\ [][NextLoad]_vars


(***************************************************************************)
(* getClusterIDByName on its own: applied to the answer GET /clusters      *)
(* gives for one listing, whose entries may lack the name or the           *)
(* cluster_id.                                                             *)
(***************************************************************************)
\* the longest listing considered
MaxEntries == 3

\* the cluster the lookup is for
TargetName == <<"t", "a">>

\* an entry of the listing: name "none" when it has no name field, id 0 when
\* it has no cluster_id field
ListingEntries == [name : {"none", "target", "other"}, id : 0..MaxClusters]

Listings == UNION {[1..n -> ListingEntries] : n \in 0..MaxEntries}

\* the JSON text of one entry of GET /clusters
EntryText(e) ==
    <<"{">>
    \o (IF e.name = "none" THEN <<>>
        ELSE JField(K_name, IF e.name = "target" THEN TargetName ELSE OtherName) \o <<",">>)
    \o (IF e.id = 0 THEN <<>> ELSE JField(K_cluster_id, ClusterID(e.id)) \o <<",">>)
    \o JField(K_state, S_running) \o <<"}">>

RECURSIVE EntriesText(_, _)
EntriesText(lst, k) ==
    IF k > Len(lst) THEN <<>>
    ELSE (IF k > 1 THEN <<",">> ELSE <<>>) \o EntryText(lst[k]) \o EntriesText(lst, k + 1)

\* the JSON text of GET /clusters
ListingText(lst) == <<"[">> \o EntriesText(lst, 1) \o <<"]">>

InitLookup ==
    /\ clusters = [i \in IDs |-> NoCluster]
    /\ nextID = 1
    /\ namespaces = {}
    /\ secrets = [n \in TenantNames |-> <<>>]
    /\ call = [c \in Calls |-> IdleCall]
    /\ invocations = 0
    /\ body = <<>>
    /\ sdkErr = NilErr
    /\ classified = FALSE
    /\ loadEnv = Env(FALSE, FALSE, FullSecret, FullConfig)
    /\ loadOut = NotRun
    /\ listing \in Listings
    /\ lookupOut = NotRun

Lookup ==
    /\ ~lookupOut.run
    /\ lookupOut' = [run |-> TRUE,
                     res |-> getClusterIDByName(Response(ListingText(listing)), TargetName)]
    /\ UNCHANGED <<backendVars, localVars, call, invocations, classifyVars, loadVars,
                   listing>>

NextLookup == Lookup

SpecLookup == InitLookup /\ [][NextLookup]_vars


(***************************************************************************)
(* Properties of the classifier (checked under SpecClassify).              *)
(***************************************************************************)
\* C2: for every error response of the five-line shape, isErrResponse returns
\* an error whose errorCode is exactly the code of the Message line, so that
\* the comparison with the constants (ClusterNameAlreadyExist, ...) succeeds.
C2_ErrorCodeExact ==
    (classified /\ CaseOf(body).canonical)
        => (sdkErr.kind = "sdk" /\ sdkErr.errorCode = CaseOf(body).code)

\* the sample error response has been classified, as an error
C2_Witness ==
    /\ classified
    /\ body = ConflictBody
    /\ CaseOf(body).code = ClusterNameAlreadyExist
    /\ sdkErr.kind = "sdk"

\* C10: isErrResponse returns nil exactly for the bodies that are well-formed
\* JSON, and returns an AliyunSDKErr (it neither returns nil nor panics) for
\* every error response of the five-line shape.
C10_ClassificationTotal ==
    classified =>
        /\ (sdkErr.kind = "nil") <=> CaseOf(body).json
        /\ CaseOf(body).canonical => sdkErr.kind = "sdk"

\* a five-line error response has been classified as an error
C10_Witness ==
    /\ classified
    /\ CaseOf(body).canonical
    /\ sdkErr.kind = "sdk"
    /\ sdkErr.errorName = S_ServerError


(***************************************************************************)
(* Properties of CreateVirtualCluster and DeleteVirtualCluster (checked    *)
(* under Spec).                                                            *)
(***************************************************************************)
Creates == {c \in Calls : call[c].op = "create"}

Deletes == {c \in Calls : call[c].op = "delete"}

\* the errors with which a state probe fails
ProbeFailures == {"transport", "json", "shape", "panic"}

\* the backend's cluster with the given id, 0 when it has none
ClusterOf(id) == IF Present(id) THEN IdIndex(id) ELSE 0

\* C1: a CreateVirtualCluster whose POST /clusters is answered with the
\* ClusterNameAlreadyExist error body issues that one POST, looks the name
\* up, resolves the id of the cluster that holds the name and does not
\* return the backend's error.
C1_IdempotentCreate ==
    \A c \in Creates :
        call[c].conflict =>
            /\ call[c].posts = 1
            /\ call[c].lists = 1
            /\ call[c].err.kind # "sdk"
            /\ call[c].looked => call[c].clsID = call[c].holder

\* a second create of a name was answered with the name conflict while the
\* first create had resolved the id of the cluster holding the name
C1_Witness ==
    \E a \in Creates, b \in Creates :
        /\ a # b
        /\ call[a].name = call[b].name
        /\ call[a].clsID # <<>>
        /\ call[b].conflict
        /\ call[b].holder = call[a].clsID
        /\ call[b].pc = "done"

\* C3: in DeleteVirtualCluster, a state probe of the poll loop that the
\* backend answers with the ClusterNotFound or the operation-not-supported
\* error response ends the call at that probe, with no error.
C3_DeleteTolerance ==
    [][\A c \in Calls :
          (/\ call[c].op = "delete"
           /\ call[c].pc = "poll"
           /\ call'[c].probed
           /\ call'[c] # call[c]
           /\ call'[c].err.kind \notin ProbeFailures \cup {"timeout"}
           /\ ~Present(call[c].clsID))
              => (call'[c].pc = "done" /\ call'[c].err = NoError)]_vars

\* a delete polls a cluster that the backend has removed already
C3_Witness ==
    \E c \in Deletes :
        /\ call[c].pc = "poll"
        /\ call[c].probed
        /\ call[c].deletes = 1
        /\ ~Present(call[c].clsID)


\* C4: the admin secret and the anchor namespace are created only by a
\* CreateVirtualCluster one of whose state probes returned "running"; a call
\* none of whose probes returned "running" (it is polling, or ended with a
\* fetch error or the timeout) has tried to create neither and has not
\* requested the kubeconfig.
C4_SecretAfterRunning ==
    [][/\ secrets' # secrets =>
              \E c \in Calls : /\ call[c].op = "create"
                               /\ call[c].sawRunning
                               /\ call[c].probed
                               /\ call'[c].srtMade
       /\ namespaces' # namespaces =>
              \E c \in Calls : /\ call[c].op = "create"
                               /\ call[c].sawRunning
                               /\ call'[c].nsTried
       /\ \A c \in Calls :
              ~call'[c].sawRunning =>
                  /\ ~call'[c].nsTried
                  /\ ~call'[c].srtTried
                  /\ ~call'[c].srtMade
                  /\ call'[c].kubeReqs = 0]_vars

\* a create has stored the admin secret of its tenant
C4_Witness ==
    \E c \in Creates :
        /\ call[c].srtMade
        /\ call[c].sawRunning
        /\ secrets[ToClusterKey(call[c].name)] # <<>>

\* C5: a CreateVirtualCluster that resolved its cluster and returned without
\* any state probe returning "running" or failing has returned the timeout
\* error, no earlier than 120 seconds after polling started and after at
\* least one state probe.
C5_CreateTimeout ==
    \A c \in Creates :
        (/\ call[c].pc = "done"
         /\ call[c].clsID # <<>>
         /\ ~call[c].sawRunning
         /\ call[c].err.kind \notin ProbeFailures)
            => /\ call[c].err.kind = "timeout"
               /\ call[c].clock >= 120
               /\ call[c].probed

\* a create returned the timeout error at the deadline itself while the
\* backend still reported its cluster as being created
C5_Witness ==
    \E c \in Creates :
        /\ call[c].pc = "done"
        /\ call[c].err.kind = "timeout"
        /\ call[c].clock = 120
        /\ call[c].probed
        /\ ClusterOf(call[c].clsID) # 0
        /\ clusters[ClusterOf(call[c].clsID)].state = S_creating

\* the result of a successful CreateVirtualCluster
CreateSucceeded(c) ==
    /\ call[c].err = NoError
    /\ ToClusterKey(call[c].name) \in namespaces
    /\ secrets[ToClusterKey(call[c].name)] # <<>>

\* the case of the success path: a probe issued by the deadline returned
\* "running" and the backend answered the kubeconfig request with a config
SuccessPath(c) ==
    /\ call[c].op = "create"
    /\ call[c].pc = "done"
    /\ call[c].posts = 1
    /\ call[c].sawRunning
    /\ ~call[c].over
    /\ call[c].kubeGood

C7_DeleteAccepted ==
    \A c \in Deletes :
        (call[c].pc = "done" /\ call[c].err = NoError)
            => /\ call[c].looked
               /\ call[c].lists = 1
               /\ call[c].deletes = 1
               /\ call[c].probed
               /\ call[c].state = S_deleting \/ call[c].gone

\* a delete has returned no error and its cluster is still on the backend
C7_Witness ==
    \E c \in Deletes :
        /\ call[c].pc = "done"
        /\ call[c].err = NoError
        /\ Present(call[c].clsID)

\* the clusters of the backend that carry name n
Holding(n) == {i \in IDs : clusters[i].present /\ clusters[i].name = n}

\* C8: at most one cluster of the backend carries a tenant's name, and a
\* CreateVirtualCluster that gets past its creation request has resolved the
\* id of the cluster that carries its name then.
C8_OneClusterPerName ==
    [][/\ \A n \in TenantNames : Cardinality(Holding(n))' <= 1
       /\ \A c \in Calls :
              (call[c].pc = "post" /\ call'[c].pc = "poll")
                  => /\ Holding(call[c].name)' # {}
                     /\ \A i \in Holding(call[c].name)' : call'[c].clsID = ClusterID(i)]_vars

\* two creates of one name: one got past its creation request, the other was
\* answered with the name conflict, and one cluster carries the name
C8_Witness ==
    \E a \in Creates, b \in Creates :
        /\ a # b
        /\ call[a].name = call[b].name
        /\ call[a].pc \in {"poll", "ns", "kube"}
        /\ call[b].pc = "done"
        /\ call[b].conflict
        /\ Cardinality(Holding(call[a].name)) = 1

\* C9: CreateVirtualCluster issues no DELETE request, only its creation
\* request changes the backend, and when its deadline elapses it returns the
\* timeout error and leaves the backend as it is.
C9_NoRollback ==
    [][\A c \in Calls :
          /\ call'[c].op = "create" => call'[c].deletes = 0
          /\ (/\ call[c].op = "create"
              /\ call[c].pc \notin {"post", "done"}
              /\ call'[c] # call[c])
                 => UNCHANGED backendVars
          /\ (/\ call[c].op = "create"
              /\ call[c].pc = "poll"
              /\ call'[c].pc = "done"
              /\ call'[c].err.kind \notin ProbeFailures)
                 => /\ call'[c].err = Error("timeout")
                    /\ UNCHANGED backendVars]_vars

\* a create has returned the timeout error and its cluster is on the
\* backend, which has brought it up
C9_Witness ==
    \E c \in Creates :
        /\ call[c].pc = "done"
        /\ call[c].err = Error("timeout")
        /\ call[c].deletes = 0
        /\ ClusterOf(call[c].clsID) # 0
        /\ clusters[ClusterOf(call[c].clsID)].state = S_running


(***************************************************************************)
(* Properties of the loaders (checked under SpecLoad).                     *)
(***************************************************************************)
\* the namespace the loaders are to read: the pod's, or "vc-manager" when the
\* pod's namespace cannot be found
OperatingNs == IF loadEnv.nsErr THEN "vc-manager" ELSE loadEnv.podNs

\* field k is in the object (an object that cannot be read has no field)
HasField(obj, k) == obj.read /\ k \in obj.keys

\* C11: what getAliyunAKPair and getASKConfigs return is decided by the
\* access-key secret and the config map of "vc-manager" when the lookup of
\* the pod's namespace fails, and by those of the namespace it returned
\* otherwise, whatever the other namespace holds.
C11_ConfigFallback ==
    loadOut.run =>
        LET akSrt == loadEnv.secret[OperatingNs]
            cfgMp == loadEnv.config[OperatingNs]
        IN  /\ (loadOut.ak = NoError) <=>
                   (HasField(akSrt, "accessKeyID") /\ HasField(akSrt, "accessKeySecret"))
            /\ (loadOut.cfg.err = NoError) <=>
                   (HasField(cfgMp, "askRegionID") /\ HasField(cfgMp, "askZoneID"))
            /\ loadOut.cfg.vpc <=>
                   (loadOut.cfg.err = NoError /\ HasField(cfgMp, "askVpcID"))

\* the lookup of the pod's namespace failed, "vc-manager" holds the secret
\* and the config map, the pod's namespace holds neither, and both loaders
\* returned no error
C11_Witness ==
    /\ loadOut.run
    /\ loadEnv.nsErr
    /\ loadEnv.secret[DefaultVcManagerNs] = FullSecret
    /\ loadEnv.config[DefaultVcManagerNs] = FullConfig
    /\ loadEnv.secret[loadEnv.podNs] = Unreadable
    /\ loadEnv.config[loadEnv.podNs] = Unreadable
    /\ loadOut.ak = NoError
    /\ loadOut.cfg.err = NoError


\* C17: getASKConfigs returns an error exactly when askRegionID or askZoneID
\* is absent from the config map (an unreadable one has no field), the error
\* names a field that is absent, and without askVpcID alone it returns no
\* error and a config with no vpcID; getAliyunAKPair returns an error exactly
\* when accessKeyID or accessKeySecret is absent.
C17_RequiredFields ==
    loadOut.run =>
        LET akSrt == loadEnv.secret[OperatingNs]
            cfgMp == loadEnv.config[OperatingNs]
        IN  /\ (loadOut.cfg.err # NoError) <=>
                   (~HasField(cfgMp, "askRegionID") \/ ~HasField(cfgMp, "askZoneID"))
            /\ loadOut.cfg.err # NoError =>
                   /\ loadOut.cfg.err.kind \in {"askRegionID", "askZoneID"}
                   /\ ~HasField(cfgMp, loadOut.cfg.err.kind)
            /\ (/\ HasField(cfgMp, "askRegionID")
                /\ HasField(cfgMp, "askZoneID")
                /\ ~HasField(cfgMp, "askVpcID"))
                   => (loadOut.cfg.err = NoError /\ ~loadOut.cfg.vpc)
            /\ (loadOut.ak # NoError) <=>
                   (~HasField(akSrt, "accessKeyID") \/ ~HasField(akSrt, "accessKeySecret"))
            /\ loadOut.ak # NoError =>
                   /\ loadOut.ak.kind \in {"accessKeyID", "accessKeySecret"}
                   /\ ~HasField(akSrt, loadOut.ak.kind)

\* the config map has the two required fields and no askVpcID, and
\* getASKConfigs returned a config without vpcID and no error
C17_Witness ==
    /\ loadOut.run
    /\ loadEnv.config[OperatingNs] = NoVpcConfig
    /\ loadOut.cfg.err = NoError
    /\ ~loadOut.cfg.vpc


C13_FailedProbeFatal ==
    [][\A c \in Calls :
          (/\ call[c].op = "create"
           /\ call[c].pc = "poll"
           /\ call'[c] # call[c]
           /\ call'[c].err.kind # "timeout"
           /\ ~Present(call[c].clsID))
              => (call'[c].pc = "done" /\ call'[c].err # NoError)]_vars

\* a create is polling a cluster that a delete has made the backend remove
C13_Witness ==
    \E c \in Creates :
        /\ call[c].pc = "poll"
        /\ call[c].clsID # <<>>
        /\ ~Present(call[c].clsID)
        /\ call[c].clock + CreationInterval < CreationTimeout

\* C14: a DeleteVirtualCluster whose DELETE request the backend answered
\* with an error response has returned that error without a state probe.
C14_DeleteRefused ==
    \A c \in Deletes :
        call[c].refused =>
            /\ call[c].pc = "done"
            /\ call[c].err.kind = "sdk"
            /\ ~call[c].probed

\* the backend refused the DELETE of a cluster it holds and goes on holding
C14_Witness ==
    \E c \in Deletes :
        /\ call[c].refused
        /\ call[c].deletes = 1
        /\ Present(call[c].clsID)
        /\ clusters[ClusterOf(call[c].clsID)].state # S_deleting


\* C15: a DeleteVirtualCluster that looks the name up while the backend
\* holds no cluster of that name returns the error of the lookup, and has
\* issued no DELETE request and no state probe.
C15_DeleteOfAbsent ==
    [][\A c \in Calls :
          (/\ call[c].pc = "lookup"
           /\ call'[c] # call[c]
           /\ ~NameTaken(call[c].name))
              => /\ call'[c].pc = "done"
                 /\ call'[c].err.kind \in {"notfound", "transport"}
                 /\ call'[c].lists = 1
                 /\ call'[c].deletes = 0
                 /\ ~call'[c].probed]_vars

\* a delete returned no error, the backend removed the cluster, and a second
\* delete of the name returned the "can't find" error
C15_Witness ==
    \E a \in Deletes, b \in Deletes :
        /\ a # b
        /\ call[a].name = call[b].name
        /\ call[a].pc = "done"
        /\ call[a].err = NoError
        /\ ~Present(call[a].clsID)
        /\ ~NameTaken(call[b].name)
        /\ call[b].pc = "done"
        /\ call[b].err = Error("notfound")
        /\ call[b].deletes = 0


\* C16: a CreateVirtualCluster whose POST /clusters is answered with a
\* transport error, with an error response of another code than
\* ClusterNameAlreadyExist, or without cluster_id (the backend creates
\* nothing then) returns an error at once, with no name lookup; such a call
\* issues no state probe and no kubeconfig request and creates neither
\* namespace nor secret; and a name lookup is issued by a create only after
\* the ClusterNameAlreadyExist answer.
C16_CreationErrorFatal ==
    [][\A c \in Calls :
          /\ (/\ call[c].pc = "post"
              /\ call'[c] # call[c]
              /\ ~call'[c].conflict
              /\ UNCHANGED clusters)
                 => /\ call'[c].pc = "done"
                    /\ call'[c].err.kind \in {"transport", "sdk", "shape"}
                    /\ call'[c].lists = 0
          /\ (call'[c].op = "create" /\ call'[c].lists > 0) => call'[c].conflict
          /\ (call'[c].op = "create" /\ call'[c].pc = "done" /\ call'[c].clsID = <<>>)
                 => /\ ~call'[c].probed
                    /\ call'[c].kubeReqs = 0
                    /\ ~call'[c].nsTried
                    /\ ~call'[c].srtTried]_vars

\* a create whose POST was answered with another backend error returned it
C16_Witness ==
    \E c \in Creates :
        /\ call[c].pc = "done"
        /\ call[c].posts = 1
        /\ ~call[c].conflict
        /\ call[c].err.kind = "sdk"
        /\ call[c].err.code # ClusterNameAlreadyExist
        /\ call[c].lists = 0
        /\ ~call[c].probed


\* C18: when the anchor namespace exists already, the create of the
\* namespace leaves it as it is and, unless it fails with another error, the
\* call goes on to fetch the kubeconfig; when the admin secret exists
\* already, the call fetches the kubeconfig, leaves the secret as it is and,
\* unless the fetch or the create fails with another error, returns no
\* error; another error of the create of the namespace ends the call before
\* the kubeconfig is fetched.
C18_AlreadyExists ==
    [][\A c \in Calls :
          LET vcNs == ToClusterKey(call[c].name)
          IN  /\ (/\ call[c].pc = "ns"
                  /\ call'[c] # call[c]
                  /\ vcNs \in namespaces)
                     => /\ namespaces' = namespaces
                        /\ call'[c].err.kind # "k8s"
                              => (call'[c].pc = "kube" /\ call'[c].err = NoError)
              /\ (/\ call[c].pc = "kube"
                  /\ call'[c] # call[c]
                  /\ secrets[vcNs] # <<>>)
                     => /\ secrets' = secrets
                        /\ call'[c].kubeReqs = 1
                        /\ call'[c].pc = "done"
                        /\ (call'[c].kubeGood /\ call'[c].err.kind # "k8s")
                              => call'[c].err = NoError
              /\ (call[c].pc = "ns" /\ call'[c].err.kind = "k8s")
                     => (call'[c].pc = "done" /\ call'[c].kubeReqs = 0)]_vars

\* a create found the namespace and the secret of an earlier create of the
\* tenant and returned no error, the secret still holding what it held
C18_Witness ==
    \E c \in Creates :
        /\ call[c].pc = "done"
        /\ call[c].err = NoError
        /\ call[c].nsTried
        /\ call[c].srtTried
        /\ ~call[c].srtMade
        /\ call[c].kubeReqs = 1
        /\ secrets[ToClusterKey(call[c].name)] # <<>>


\* the entries of the listing that carry the target name
Matches == {k \in 1..Len(listing) : listing[k].name = "target"}

\* the listing is malformed: an entry lacks the name or the cluster_id
Malformed == \E k \in 1..Len(listing) : listing[k].name = "none" \/ listing[k].id = 0

FirstMatch == CHOOSE k \in Matches : \A j \in Matches : k <= j

\* C19: getClusterIDByName fails on every listing in which an entry lacks
\* the name or the cluster_id, wherever the entry stands; on the other
\* listings it returns the cluster_id of the first entry of the target name,
\* and the "can't find" error when no entry has that name.
C19_LookupAsStated ==
    lookupOut.run =>
        IF Malformed THEN lookupOut.res.err.kind # "nil"
        ELSE IF Matches = {} THEN lookupOut.res = CantFind
        ELSE lookupOut.res = [err |-> NoError, id |-> ClusterID(listing[FirstMatch].id)]

\* the lookup answered with a cluster id although an entry after the
\* matching one has no name, or an entry before it has no cluster_id
C19_Witness ==
    /\ lookupOut.run
    /\ Malformed
    /\ lookupOut.res.err = NoError
    /\ lookupOut.res.id = ClusterID(1)


\* C20: whenever a create call has returned no error, the admin secret in
\* the anchor namespace of its tenant holds the kubeconfig of the cluster id
\* the call resolved.
C20_FreshCredential ==
    \A c \in Creates :
        (call[c].pc = "done" /\ call[c].err = NoError)
            => secrets[ToClusterKey(call[c].name)] = KubeConfigOf(IdIndex(call[c].clsID))

\* a create that made the second cluster of the tenant returned no error
\* while the secret still holds the kubeconfig of the first, deleted one
C20_Witness ==
    \E c \in Creates :
        /\ call[c].pc = "done"
        /\ call[c].err = NoError
        /\ call[c].clsID = ClusterID(2)
        /\ call[c].srtTried
        /\ ~call[c].srtMade
        /\ ~clusters[1].present
        /\ secrets[ToClusterKey(call[c].name)] = KubeConfigOf(1)


(***************************************************************************)
(* No request without credentials.                                         *)
(***************************************************************************)
\* call record r has issued no backend request and no local create
Untouched(r) ==
    /\ r.posts = 0 /\ r.lists = 0 /\ r.deletes = 0 /\ r.kubeReqs = 0
    /\ ~r.probed /\ ~r.nsTried /\ ~r.srtTried /\ ~r.srtMade

\* the errors getAliyunAKPair and getASKConfigs return
LoaderErrors ==
    {Error(k) : k \in {"accessKeyID", "accessKeySecret", "askRegionID", "askZoneID", "get"}}

\* C21: a CreateVirtualCluster or DeleteVirtualCluster called where
\* getAliyunAKPair or getASKConfigs returns an error returns that error at
\* once, the backend, the namespaces and the secrets being as they were; and
\* a call that holds an error of a loader has issued no POST, GET or DELETE
\* and has created no namespace and no secret.
C21_NoRequestWithoutCredentials ==
    [][\A c \in Calls :
          /\ \A op \in {"create", "delete"}, n \in TenantNames, env \in LoadEnvs :
                LET ak == getAliyunAKPair(env)
                    cfg == getASKConfigs(env).err
                IN  (Invoke(c, op, n, env) /\ (ak # NoError \/ cfg # NoError))
                       => /\ call'[c].pc = "done"
                          /\ call'[c].err = IF ak # NoError THEN ak ELSE cfg
                          /\ Untouched(call'[c])
                          /\ UNCHANGED <<clusters, nextID, namespaces, secrets>>
          /\ call'[c].err \in LoaderErrors
                => (call'[c].pc = "done" /\ Untouched(call'[c]))]_vars

\* with a running cluster of the tenant at the backend and its namespace and
\* secret in place, a call met a config map without askZoneID and returned
\* the error of getASKConfigs, having issued nothing
C21_Witness ==
    \E c \in Calls :
        /\ call[c].pc = "done"
        /\ call[c].err = Error("askZoneID")
        /\ Untouched(call[c])
        /\ \E i \in IDs : clusters[i].present
        /\ namespaces # {}
        /\ \E n \in TenantNames : secrets[n] # <<>>


(***************************************************************************)
(* The order of the local steps.                                           *)
(***************************************************************************)
\* the step of call c is a kubeconfig fetch that failed
FetchFails(c) ==
    /\ call[c].pc = "kube"
    /\ call'[c] # call[c]
    /\ ~call'[c].srtTried

\* the admin secret of a tenant exists only if its anchor namespace does
SecretInNamespace ==
    \A n \in TenantNames : secrets[n] # <<>> => ToClusterKey(n) \in namespaces

\* the create of the namespace comes before the kubeconfig fetch and the
\* create of the secret after a fetch that gave a kubeconfig
LocalOrder(c) ==
    /\ call'[c].kubeReqs > 0 => call'[c].nsTried
    /\ call'[c].srtTried => (call'[c].kubeReqs > 0 /\ call'[c].kubeGood)

=============================================================================
